---- MODULE Spec2Model ----
(***************************************************************************)
(* The dashboard of aheev/my-portfolio as a state machine.                 *)
(*                                                                         *)
(*   src/unnamed/part_001   the page script: the object `app` (init,       *)
(*                          updateUptime, render, renderCharts,            *)
(*                          renderFeed, handleNav, getUniqueRepos) and     *)
(*                          animateValue                                   *)
(*   src/unnamed/part_000   the standalone renderCharts(analytics)         *)
(*   src/assets/charts.js   window.initCharts and drawTimeline,            *)
(*                          drawSubsystems, drawRepos                      *)
(*                                                                         *)
(* JavaScript strings are sequences of one-character strings, so that      *)
(* toLowerCase, includes, split and the default sort order are computed    *)
(* and not assumed.                                                        *)
(***************************************************************************)
EXTENDS Integers, Sequences, FiniteSets, TLC

VARIABLES
    pc,          \* position of app.init: "boot", "fetching", "ready"
    data,        \* app.data
    uptime,      \* text of #uptime
    statAnim,    \* stat element id -> the end value animateValue was started with
    animState,   \* stat element id -> the closure of its animation: startTimestamp,
                 \* and whether a frame is requested for step
    statText,    \* stat element id -> the innerHTML written by step
    frameTs,     \* timestamp of the last animation frame the browser delivered
    animHist,    \* history: stat element id -> timestamp of the first frame of its
                 \* animation, and the value displayed before the current one
    logFeed,     \* children of #log-feed
    navActive,   \* the .nav-item elements that carry the class 'active'
    dashDisplay, \* #dashboard-view style.display
    extraViews,  \* the elements with id 'extra-view' under .main-content
    canvases,    \* ids of the <canvas> elements of the page
    liveCharts,  \* Chart objects created and not destroyed
    slots,       \* window.timelineChart, window.subsystemChart, window.reposChart
    nextChartId, \* identity of the next Chart object
    lastQuery,   \* history: argument of the last renderFeed call
    lastTab,     \* history: data-tab of the last nav item clicked
    uncaught,    \* history: some event handler ended with an uncaught exception
    lastCreated, \* history: canvas id -> the Chart constructed on it last
    lastCall     \* history: the last initCharts / renderCharts(analytics) call

vars == <<pc, data, uptime, statAnim, logFeed, navActive, dashDisplay, extraViews,
          canvases, liveCharts, slots, nextChartId, lastQuery, lastTab, uncaught,
          lastCreated, lastCall, animState, statText, frameTs, animHist>>

animVars == <<animState, statText, frameTs, animHist>>

appVars == <<pc, data, uptime, statAnim, logFeed, navActive, dashDisplay,
             extraViews, lastQuery, lastTab, uncaught>>

chartVars == <<liveCharts, slots, nextChartId, lastCreated>>

\* an optional value (a field that may be absent, a reference that may be
\* null or undefined) is <<>> when absent and <<v>> when it holds v
None == <<>>
Some(v) == <<v>>
Val(o) == o[1]

(***************************************************************************)
(* Bounds of the model.                                                    *)
(***************************************************************************)
\* longest feed of a fetched document
MaxFeed == 2
\* Chart objects constructed on one page
MaxCharts == 4
\* the largest stat count
MaxEnd == 3
\* animation frame timestamps are the multiples of TimeStep ms up to
\* MaxTicks * TimeStep
TimeStep == 250
MaxTicks == 8

(***************************************************************************)
(* Strings.                                                                *)
(***************************************************************************)
\* the printable ASCII characters in code order, from 32 (space) to 126 (~);
\* the three that a TLA+ string cannot hold as written are spelled out
Ascii ==
    << " ", "!", "QUOTE", "#", "$", "%", "&", "'", "(", ")", "*", "+", ",", "-", ".", "/",
       "0", "1", "2", "3", "4", "5", "6", "7", "8", "9", ":", ";", "<", "=", ">", "?",
       "@", "A", "B", "C", "D", "E", "F", "G", "H", "I", "J", "K", "L", "M", "N", "O",
       "P", "Q", "R", "S", "T", "U", "V", "W", "X", "Y", "Z", "[", "BACKSLASH", "]", "^", "_",
       "BACKTICK", "a", "b", "c", "d", "e", "f", "g", "h", "i", "j", "k", "l", "m", "n", "o",
       "p", "q", "r", "s", "t", "u", "v", "w", "x", "y", "z", "{", "|", "}", "~" >>

AsciiCode ==
    [c \in {Ascii[i] : i \in 1..Len(Ascii)} |-> 31 + (CHOOSE i \in 1..Len(Ascii) : Ascii[i] = c)]

\* String.prototype.charCodeAt for one character
Code(c) == AsciiCode[c]

FromCode(n) == Ascii[n - 31]

\* String.prototype.toLowerCase
toLowerCase(s) ==
    [i \in 1..Len(s) |-> IF Code(s[i]) \in 65..90 THEN FromCode(Code(s[i]) + 32) ELSE s[i]]

\* String.prototype.toUpperCase
toUpperCase(s) ==
    [i \in 1..Len(s) |-> IF Code(s[i]) \in 97..122 THEN FromCode(Code(s[i]) - 32) ELSE s[i]]

\* String.prototype.includes
includes(s, q) ==
    \E i \in 0..(Len(s) - Len(q)) : \A j \in 1..Len(q) : s[i + j] = q[j]

\* s.split('/')[0]: the part of s before its first '/'
splitFirst(s) ==
    IF \E i \in 1..Len(s) : s[i] = "/"
    THEN SubSeq(s, 1, (CHOOSE i \in 1..Len(s) : s[i] = "/" /\ \A j \in 1..(i - 1) : s[j] # "/") - 1)
    ELSE s

\* the order of Array.prototype.sort without a comparator: by UTF-16 code units
StrLess(a, b) ==
    \/ /\ Len(a) < Len(b)
       /\ \A j \in 1..Len(a) : a[j] = b[j]
    \/ \E i \in 1..Len(a) :
          /\ i <= Len(b)
          /\ \A j \in 1..(i - 1) : a[j] = b[j]
          /\ Code(a[i]) < Code(b[i])

\* string literals of the source
S_github == <<"g", "i", "t", "h", "u", "b">>
S_kernel == <<"k", "e", "r", "n", "e", "l">>
S_jira == <<"j", "i", "r", "a">>
S_blog == <<"b", "l", "o", "g">>
S_GitHub == <<"G", "i", "t", "H", "u", "b">>
S_LINUX == <<"L", "I", "N", "U", "X">>
S_KAFKA == <<"K", "A", "F", "K", "A">>
S_DEVTO == <<"D", "E", "V", ".", "T", "O">>
S_NA == <<"N", "/", "A">>
S_OK == <<"O", "K">>
S_hash == <<"#">>
S_Other == <<"O", "t", "h", "e", "r">>
S_linux_git == <<"l", "i", "n", "u", "x", ".", "g", "i", "t">>
S_Linux_Kernel == <<"L", "i", "n", "u", "x", " ", "K", "e", "r", "n", "e", "l">>
S_Apache_Kafka == <<"A", "p", "a", "c", "h", "e", " ", "K", "a", "f", "k", "a">>
S_ASF == <<"A", "p", "a", "c", "h", "e", " ", "S", "o", "f", "t", "w", "a", "r", "e", " ",
           "F", "o", "u", "n", "d", "a", "t", "i", "o", "n">>

\* a URL is its fixed part, kept whole, and the string appended to it
GithubUrl(path) == [base |-> "https://github.com/", path |-> path]
KernelUrl ==
    [base |-> "https://git.kernel.org/pub/scm/linux/kernel/git/torvalds/linux.git/", path |-> <<>>]
KafkaUrl == [base |-> "https://kafka.apache.org/", path |-> <<>>]

(***************************************************************************)
(* The fetched document (data/analytics.json as part_001 reads it).        *)
(* A feed item is {title, subtitle, source, date?, url?, meta?}.           *)
(***************************************************************************)
S_kernel_commit == <<"k", "e", "r", "n", "e", "l", "_", "c", "o", "m", "m", "i", "t">>
S_issue_tracker == <<"i", "s", "s", "u", "e", "_", "t", "r", "a", "c", "k", "e", "r">>
S_apache_kafka == <<"a", "p", "a", "c", "h", "e", "/", "k", "a", "f", "k", "a">>
S_constructor_x == <<"c", "o", "n", "s", "t", "r", "u", "c", "t", "o", "r", "/", "x">>
S_constructor == <<"c", "o", "n", "s", "t", "r", "u", "c", "t", "o", "r">>
S_toString == <<"t", "o", "S", "t", "r", "i", "n", "g">>
S_valueOf == <<"v", "a", "l", "u", "e", "O", "f">>
S_2024 == <<"2", "0", "2", "4">>
S_merged == <<"m", "e", "r", "g", "e", "d">>
S_u1 == <<"u", "/", "1">>

Item(source, subtitle, title, date, url, meta) ==
    [source |-> source, subtitle |-> subtitle, title |-> title,
     date |-> date, url |-> url, meta |-> meta]

\* the items a feed of the model is made of
Items ==
    { Item(S_github, S_apache_kafka, <<"F", "i", "x", " ", "N", "P", "E">>, Some(S_2024), Some(S_u1), Some(S_merged)),
      Item(S_github, S_apache_kafka, <<"f", "i", "x", " ", "d", "o", "c">>, None, None, None),
      Item(S_github, S_GitHub, <<"A", "d", "d", " ", "c", "i">>, Some(S_2024), None, None),
      Item(S_github, S_constructor_x, <<"I", "n", "i", "t">>, None, None, None),
      Item(S_github, <<>>, <<"G", "i", "s", "t">>, None, None, None),
      Item(S_kernel, <<"m", "m">>, <<"m", "m", ":", " ", "f", "i", "x">>, Some(S_2024), Some(S_u1), None),
      Item(S_kernel_commit, <<"n", "e", "t">>, <<"n", "e", "t", ":", " ", "a", "d", "d">>, None, None, None),
      Item(S_jira, S_KAFKA, <<"K", "A", "F", "K", "A", "-", "1">>, Some(S_2024), None, Some(<<"o", "p", "e", "n">>)),
      Item(S_issue_tracker, S_KAFKA, <<"K", "A", "F", "K", "A", "-", "2">>, None, None, None),
      Item(S_blog, <<"d", "e", "v">>, <<"P", "o", "s", "t">>, None, Some(S_u1), None) }

\* the source values of the data model (spec.md, section 3)
DataModelSources ==
    { S_github, S_kernel_commit, <<"k", "e", "r", "n", "e", "l", "_", "p", "a", "t", "c", "h">>,
      S_issue_tracker, S_blog }

RECURSIVE SeqsUpTo(_, _)
SeqsUpTo(S, n) ==
    IF n = 0 THEN {<<>>}
    ELSE LET shorter == SeqsUpTo(S, n - 1)
         IN shorter \cup {Append(f, x) : f \in shorter, x \in S}

Feeds == SeqsUpTo(Items, MaxFeed)

StatsValues == {None, Some([github |-> Some(3), kernel |-> Some(2), jira |-> Some(1), blogs |-> None])}
ChartValues == {None, Some([labels |-> <<"Jan", "Feb">>, data |-> <<1, 2>>])}
LanguagesValues == {None, Some(<<<<"C", 2>>, <<"Java", 1>>>>)}

\* the documents a fetch may deliver: the complete documents with every feed,
\* and every subset of the fields stats, chart and languages with the feeds of
\* at most one item and with no feed at all
Documents ==
    [stats : StatsValues \ {None}, chart : ChartValues \ {None},
     languages : LanguagesValues \ {None}, feed : {Some(f) : f \in Feeds}]
    \cup
    [stats : StatsValues, chart : ChartValues, languages : LanguagesValues,
     feed : {Some(f) : f \in SeqsUpTo(Items, 1)} \cup {None}]

\* the documents of the chart page specification: every subset of the fields
\* stats, chart and languages, with an empty feed
SmallDocuments ==
    [stats : StatsValues, chart : ChartValues, languages : LanguagesValues,
     feed : {Some(<<>>)}]

\* the counts of the stats block: absent or a non-negative integer
EndValues == {None} \cup {Some(e) : e \in 0..MaxEnd}

\* the documents of the stat counter specification: every pair of github and
\* kernel counts, with an empty feed
AnimDocuments ==
    [stats : {Some([github |-> g, kernel |-> k, jira |-> None, blogs |-> Some(1)]) :
                g \in EndValues, k \in EndValues},
     chart : {None}, languages : {None}, feed : {Some(<<>>)}]

\* what the user types into #log-filter
Queries == { <<>>, <<"F", "I", "X">>, S_kernel, <<"z", "z">> }

(***************************************************************************)
(* app.renderFeed                                                          *)
(***************************************************************************)
ErrorBox == [kind |-> "error"]
Placeholder == [kind |-> "placeholder"]

\* lines 170-197: the row of one item
Row(item) ==
    LET label ==
            IF includes(item.source, S_kernel)
            THEN [tagClass |-> "tag-kernel", sourceLabel |-> S_LINUX]
            ELSE IF item.source = S_jira
            THEN [tagClass |-> "tag-jira", sourceLabel |-> S_KAFKA]
            ELSE IF item.source = S_blog
            THEN [tagClass |-> "tag-blog", sourceLabel |-> S_DEVTO]
            ELSE [tagClass |-> "tag-github", sourceLabel |-> item.subtitle]
    IN [kind |-> "row",
        href |-> IF item.url = None \/ Val(item.url) = <<>> THEN S_hash ELSE Val(item.url),
        time |-> IF item.date = None \/ Val(item.date) = <<>> THEN S_NA ELSE Val(item.date),
        tagClass |-> label.tagClass,
        sourceLabel |-> label.sourceLabel,
        title |-> item.title,
        status |-> IF item.meta = None \/ Val(item.meta) = <<>> THEN S_OK
                   ELSE toUpperCase(Val(item.meta))]

\* renderFeed without lower-casing the query
renderFeed_CaseSensitive(container, d, query) ==
    IF d = None \/ Val(d).feed = None
    THEN [container |-> <<>>, threw |-> TRUE]
    ELSE LET Keep(item) == \/ includes(toLowerCase(item.title), query)
                           \/ includes(toLowerCase(item.subtitle), query)
                           \/ includes(toLowerCase(item.source), query)
             items == SelectSeq(Val(Val(d).feed), Keep)
         IN IF Len(items) = 0
            THEN [container |-> <<Placeholder>>, threw |-> FALSE]
            ELSE [container |-> [i \in 1..Len(items) |-> Row(items[i])], threw |-> FALSE]

\* renderFeed without `container.innerHTML = ""`
renderFeed_NoClear(container, d, query) ==
    IF d = None \/ Val(d).feed = None
    THEN [container |-> container, threw |-> TRUE]
    ELSE LET q == toLowerCase(query)
             Keep(item) == \/ includes(toLowerCase(item.title), q)
                           \/ includes(toLowerCase(item.subtitle), q)
                           \/ includes(toLowerCase(item.source), q)
             items == SelectSeq(Val(Val(d).feed), Keep)
         IN IF Len(items) = 0
            THEN [container |-> <<Placeholder>>, threw |-> FALSE]
            ELSE [container |-> container \o [i \in 1..Len(items) |-> Row(items[i])],
                  threw |-> FALSE]

\* the children of #log-feed after renderFeed(query), and whether it threw:
\* the container is emptied first, then this.data.feed is read
renderFeed(container, d, query) ==
    LET cleared == <<>>
    IN IF d = None \/ Val(d).feed = None
       THEN [container |-> cleared, threw |-> TRUE]
       ELSE LET q == toLowerCase(query)
                Keep(item) == \/ includes(toLowerCase(item.title), q)
                              \/ includes(toLowerCase(item.subtitle), q)
                              \/ includes(toLowerCase(item.source), q)
                items == SelectSeq(Val(Val(d).feed), Keep)
            IN IF Len(items) = 0
               THEN [container |-> <<Placeholder>>, threw |-> FALSE]
               ELSE [container |-> cleared \o [i \in 1..Len(items) |-> Row(items[i])],
                     threw |-> FALSE]

(***************************************************************************)
(* app.getUniqueRepos                                                      *)
(***************************************************************************)
\* Map.prototype.has, on a Map kept as the sequence of its entries
mapHas(m, key) == \E i \in 1..Len(m) : m[i].key = key

\* Map.prototype.set: a present key keeps its place and takes the new value
mapSet(m, key, value) ==
    IF mapHas(m, key)
    THEN [i \in 1..Len(m) |-> IF m[i].key = key THEN [key |-> key, value |-> value] ELSE m[i]]
    ELSE Append(m, [key |-> key, value |-> value])

\* addRepo without the test `i.subtitle !== 'GitHub'`
addRepo_KeepPlaceholder(repos, i) ==
    LET r1 == IF i.source = S_github /\ ~mapHas(repos, i.subtitle)
              THEN mapSet(repos, i.subtitle,
                          [name |-> i.subtitle, url |-> GithubUrl(i.subtitle),
                           org |-> splitFirst(i.subtitle)])
              ELSE repos
        r2 == IF i.source = S_kernel
              THEN mapSet(r1, S_linux_git,
                          [name |-> S_linux_git, url |-> KernelUrl, org |-> S_Linux_Kernel])
              ELSE r1
    IN IF i.source = S_jira
       THEN mapSet(r2, S_Apache_Kafka,
                   [name |-> S_Apache_Kafka, url |-> KafkaUrl, org |-> S_ASF])
       ELSE r2

\* lines 267-279: the body of the forEach, for one item
addRepo(repos, i) ==
    LET r1 == IF i.source = S_github /\ i.subtitle # S_GitHub /\ ~mapHas(repos, i.subtitle)
              THEN mapSet(repos, i.subtitle,
                          [name |-> i.subtitle, url |-> GithubUrl(i.subtitle),
                           org |-> splitFirst(i.subtitle)])
              ELSE repos
        r2 == IF i.source = S_kernel
              THEN mapSet(r1, S_linux_git,
                          [name |-> S_linux_git, url |-> KernelUrl, org |-> S_Linux_Kernel])
              ELSE r1
    IN IF i.source = S_jira
       THEN mapSet(r2, S_Apache_Kafka,
                   [name |-> S_Apache_Kafka, url |-> KafkaUrl, org |-> S_ASF])
       ELSE r2

RECURSIVE reposOf(_)
reposOf(feed) ==
    IF feed = <<>> THEN <<>>
    ELSE addRepo(reposOf(SubSeq(feed, 1, Len(feed) - 1)), feed[Len(feed)])

\* the array getUniqueRepos returns, and whether it threw
getUniqueRepos(d) ==
    IF d = None THEN [repos |-> <<>>, threw |-> FALSE]
    ELSE IF Val(d).feed = None THEN [repos |-> <<>>, threw |-> TRUE]
    ELSE LET m == reposOf(Val(Val(d).feed))
         IN [repos |-> [k \in 1..Len(m) |-> m[k].value], threw |-> FALSE]

(***************************************************************************)
(* app.handleNav                                                           *)
(***************************************************************************)
\* property names every object literal inherits from Object.prototype (some
\* of them): `groups[k]` is truthy for these although `groups` is `{}`
ObjectPrototypeKeys == {S_constructor, S_toString, S_valueOf}

\* lines 225-230: groups, as the sequence of its own keys with their arrays.
\* For an inherited key `!groups[k]` is false and `groups[k].push` is not a
\* function: a TypeError.
RECURSIVE groupsOf(_)
groupsOf(repos) ==
    IF repos = <<>> THEN [groups |-> <<>>, threw |-> FALSE]
    ELSE LET prev == groupsOf(SubSeq(repos, 1, Len(repos) - 1))
             r == repos[Len(repos)]
             k == IF r.org = <<>> THEN S_Other ELSE r.org
             g == prev.groups
         IN IF prev.threw THEN prev
            ELSE IF \E i \in 1..Len(g) : g[i].key = k
            THEN [groups |-> [i \in 1..Len(g) |->
                                 IF g[i].key = k
                                 THEN [g[i] EXCEPT !.list = Append(g[i].list, r)]
                                 ELSE g[i]],
                  threw |-> FALSE]
            ELSE IF k \in ObjectPrototypeKeys
            THEN [groups |-> g, threw |-> TRUE]
            ELSE [groups |-> Append(g, [key |-> k, list |-> <<r>>]), threw |-> FALSE]

\* Object.keys(groups).sort()
RECURSIVE sortKeys(_)
sortKeys(keys) ==
    IF keys = {} THEN <<>>
    ELSE LET least == CHOOSE x \in keys : \A y \in keys \ {x} : StrLess(x, y)
         IN <<least>> \o sortKeys(keys \ {least})

\* lines 232-248: the panel of the projects tab, one section per org
projectsView(groups) ==
    LET keys == sortKeys({groups[i].key : i \in 1..Len(groups)})
        listOf(k) == (CHOOSE g \in {groups[i] : i \in 1..Len(groups)} : g.key = k).list
    IN [kind |-> "projects",
        sections |-> [i \in 1..Len(keys) |->
                         [heading |-> keys[i],
                          cards |-> [j \in 1..Len(listOf(keys[i])) |->
                                        [name |-> listOf(keys[i])[j].name,
                                         url |-> listOf(keys[i])[j].url]]]]]

AboutView == [kind |-> "about"]

\* the #extra-view elements and the display of #dashboard-view after
\* handleNav(tab), and whether it threw
handleNav(tab, d, views) ==
    LET removed == IF views # <<>> THEN Tail(views) ELSE views
        display == IF tab = "dashboard" THEN "flex" ELSE "none"
    IN IF tab = "projects"
       THEN LET u == getUniqueRepos(d)
                g == groupsOf(u.repos)
            IN IF u.threw \/ g.threw
               THEN [views |-> removed, display |-> display, threw |-> TRUE]
               ELSE [views |-> Append(removed, projectsView(g.groups)),
                     display |-> display, threw |-> FALSE]
       ELSE IF tab = "about"
       THEN [views |-> Append(removed, AboutView), display |-> display, threw |-> FALSE]
       ELSE [views |-> removed, display |-> display, threw |-> FALSE]

(***************************************************************************)
(* Chart.js objects.  The chart state is                                   *)
(*   [live, slots, next, last]: the Chart objects alive, the window slots, *)
(*   the identity of the next object, the last object made per canvas.     *)
(* window.timelineChart, window.subsystemChart and window.reposChart are   *)
(* taken as plain properties of window, undefined until assigned.          *)
(***************************************************************************)
ChartSlots == {"timelineChart", "subsystemChart", "reposChart"}
AppCanvases == {"throughputChart", "languageChart"}
AllCanvases == ChartSlots \cup AppCanvases

\* x || dflt, for an optional array or object
Or(x, dflt) == IF x = None THEN dflt ELSE Val(x)

\* new Chart(ctx, {type, data: {labels, datasets}})
newChart(cs, canvas, type, labels, series) ==
    [cs EXCEPT !.live = @ \cup {[id |-> cs.next, canvas |-> canvas, type |-> type,
                                 labels |-> labels, series |-> series]},
               !.next = @ + 1,
               !.last[canvas] = Some(cs.next)]

\* if (window[slot]) window[slot].destroy()
destroySlot(cs, slot) ==
    IF cs.slots[slot] = None THEN cs
    ELSE [cs EXCEPT !.live = {c \in @ : c.id # Val(cs.slots[slot])}]

\* window[slot] = new Chart(...), after the destroy of the chart it held
replaceChart(cs, slot, type, labels, series) ==
    LET made == newChart(destroySlot(cs, slot), slot, type, labels, series)
    IN [made EXCEPT !.slots[slot] = Some(cs.next)]

\* drawTimeline without the destroy of line 22
drawTimeline_NoDestroy(cs, dom, tl) ==
    IF "timelineChart" \notin dom \/ tl = None
    THEN [cs |-> cs, threw |-> TRUE]
    ELSE LET t == Val(tl)
             made == newChart(cs, "timelineChart", "line", Or(t.months, <<>>),
                              <<Or(t.github, <<>>), Or(t.jira, <<>>),
                                Or(t.kernel, <<>>), Or(t.gitkernel, <<>>)>>)
         IN [cs |-> [made EXCEPT !.slots["timelineChart"] = Some(cs.next)],
             threw |-> FALSE]

\* charts.js drawTimeline: getContext of the canvas, then tl.months
drawTimeline(cs, dom, tl) ==
    IF "timelineChart" \notin dom \/ tl = None
    THEN [cs |-> cs, threw |-> TRUE]
    ELSE LET t == Val(tl)
         IN [cs |-> replaceChart(cs, "timelineChart", "line", Or(t.months, <<>>),
                                 <<Or(t.github, <<>>), Or(t.jira, <<>>),
                                   Or(t.kernel, <<>>), Or(t.gitkernel, <<>>)>>),
             threw |-> FALSE]

\* charts.js drawSubsystems; an object is the sequence of its <<key, value>>
drawSubsystems(cs, dom, subsys) ==
    IF "subsystemChart" \notin dom
    THEN [cs |-> cs, threw |-> TRUE]
    ELSE LET o == Or(subsys, <<>>)
         IN [cs |-> replaceChart(cs, "subsystemChart", "doughnut",
                                 [i \in 1..Len(o) |-> o[i][1]],
                                 <<[i \in 1..Len(o) |-> o[i][2]]>>),
             threw |-> FALSE]

\* charts.js drawRepos (lines 42-45 and 97-103; the functions declared in
\* between are local to it and never called)
drawRepos(cs, dom, repos) ==
    IF "reposChart" \notin dom
    THEN [cs |-> cs, threw |-> TRUE]
    ELSE LET a == Or(repos, <<>>)
         IN [cs |-> replaceChart(cs, "reposChart", "bar",
                                 [i \in 1..Len(a) |-> a[i].name],
                                 <<[i \in 1..Len(a) |-> Some(Or(a[i].prs, 0))]>>),
             threw |-> FALSE]

\* window.initCharts: the first draw that throws ends the try block
initCharts(cs, dom, analytics) ==
    IF analytics = None THEN [cs |-> cs, caught |-> FALSE]
    ELSE LET a == Val(analytics)
             t == drawTimeline(cs, dom, a.timeline)
             u == drawSubsystems(t.cs, dom, a.subsystems)
             r == drawRepos(u.cs, dom, a.repos)
         IN IF t.threw THEN [cs |-> t.cs, caught |-> TRUE]
            ELSE IF u.threw THEN [cs |-> u.cs, caught |-> TRUE]
            ELSE [cs |-> r.cs, caught |-> r.threw]

\* part_000 renderCharts(analytics): one try block around the three charts
renderCharts(cs, dom, analytics) ==
    IF analytics = None \/ Val(analytics).timeline = None
       \/ "timelineChart" \notin dom
    THEN [cs |-> cs, caught |-> TRUE]
    ELSE LET a == Val(analytics)
             tl == Val(a.timeline)
             c1 == replaceChart(cs, "timelineChart", "line", Or(tl.months, <<>>),
                                <<Or(tl.github, <<>>), Or(tl.jira, <<>>),
                                  Or(tl.kernel, <<>>), Or(tl.gitkernel, <<>>)>>)
             subs == Or(a.subsystems, <<>>)
             c2 == replaceChart(c1, "subsystemChart", "doughnut",
                                [i \in 1..Len(subs) |-> subs[i][1]],
                                <<[i \in 1..Len(subs) |-> subs[i][2]]>>)
             repos == Or(a.repos, <<>>)
             c3 == replaceChart(c2, "reposChart", "bar",
                                [i \in 1..Len(repos) |-> repos[i].name],
                                <<[i \in 1..Len(repos) |-> repos[i].prs]>>)
         IN IF "subsystemChart" \notin dom THEN [cs |-> c1, caught |-> TRUE]
            ELSE IF "reposChart" \notin dom THEN [cs |-> c2, caught |-> TRUE]
            ELSE [cs |-> c3, caught |-> FALSE]

\* app.renderCharts: nothing without data.chart and data.languages; the two
\* charts are constructed and not kept
app_renderCharts(cs, dom, d) ==
    IF Val(d).chart = None \/ Val(d).languages = None THEN cs
    ELSE LET c1 == IF "throughputChart" \in dom
                   THEN newChart(cs, "throughputChart", "line",
                                 Val(Val(d).chart).labels, <<Val(Val(d).chart).data>>)
                   ELSE cs
             langs == Val(Val(d).languages)
         IN IF "languageChart" \in dom
            THEN newChart(c1, "languageChart", "doughnut",
                          [i \in 1..Len(langs) |-> langs[i][1]],
                          <<[i \in 1..Len(langs) |-> langs[i][2]]>>)
            ELSE c1

\* the summary documents handed to initCharts / renderCharts(analytics)
TimelineValues ==
    { None,
      Some([months |-> Some(<<"2024-01", "2024-02">>), github |-> Some(<<2, 0>>),
            jira |-> Some(<<0, 1>>), kernel |-> Some(<<1, 1>>), gitkernel |-> Some(<<0, 0>>)]),
      Some([months |-> Some(<<"2024-01">>), github |-> None, jira |-> None,
            kernel |-> None, gitkernel |-> None]) }
SubsystemsValues == {None, Some(<<<<"mm", 2>>, <<"net", 1>>>>)}
ReposValues ==
    {None, Some(<<[name |-> "apache/kafka", prs |-> Some(2)], [name |-> "linux", prs |-> None]>>)}

Analytics ==
    {None} \cup {Some(a) : a \in [timeline : TimelineValues, subsystems : SubsystemsValues,
                                  repos : ReposValues]}

(***************************************************************************)
(* app.updateUptime, app.render, app.init                                  *)
(***************************************************************************)
\* day number (days since 1970-01-01) of new Date("2020-01-01")
StartDay == 18262

\* readings of the clock: the UTC day number of Date.now() and the local
\* hours and minutes
Nows == {[day |-> 20394, hrs |-> 9, mins |-> 30], [day |-> 20395, hrs |-> 0, mins |-> 5]}

\* the text written to #uptime
updateUptime(now) == [days |-> now.day - StartDay, hrs |-> now.hrs, mins |-> now.mins]

StatIds == {"stat-github", "stat-kernel", "stat-jira", "stat-blojs"}

\* animateValue(id, end) as far as the call itself goes: nothing when end is
\* undefined, else the first animation frame is requested
animateValue(anim, id, end) ==
    IF end = None THEN anim ELSE [anim EXCEPT ![id] = end]

\* const duration = 1000
duration == 1000

\* the closures of the animations animateValue has started: startTimestamp is
\* null and the first frame is requested for step
requestFirstFrames(state, anim) ==
    [id \in StatIds |-> IF anim[id] = None THEN state[id]
                        ELSE [startTimestamp |-> None, requested |-> TRUE]]

\* if (!startTimestamp) startTimestamp = timestamp : null and 0 are both falsy
startOf(startTimestamp, timestamp) ==
    IF startTimestamp = None \/ Val(startTimestamp) = 0 THEN timestamp
    ELSE Val(startTimestamp)

\* progress < 1, with progress = Math.min((timestamp - startTimestamp) / duration, 1)
progressBelowOne(startTimestamp, timestamp) ==
    timestamp - startOf(startTimestamp, timestamp) < duration

\* Math.floor(progress * (end - start) + start) with start = 0
stepValue(startTimestamp, timestamp, end) ==
    IF progressBelowOne(startTimestamp, timestamp)
    THEN ((timestamp - startOf(startTimestamp, timestamp)) * end) \div duration
    ELSE end

\* step(timestamp) on the closure c of an animation towards end: the new
\* closure, with another frame requested while progress < 1
step(c, timestamp, end) ==
    [startTimestamp |-> Some(startOf(c.startTimestamp, timestamp)),
     requested |-> progressBelowOne(c.startTimestamp, timestamp)]

\* app.render on a loaded document: the stats (a TypeError when data.stats
\* is absent), then renderFeed(""), then renderCharts
render(d, anim, container, cs, dom) ==
    IF Val(d).stats = None
    THEN [anim |-> anim, container |-> container, cs |-> cs, queried |-> FALSE,
          threw |-> TRUE]
    ELSE LET st == Val(Val(d).stats)
             a1 == animateValue(anim, "stat-github", st.github)
             a2 == animateValue(a1, "stat-kernel", st.kernel)
             a3 == animateValue(a2, "stat-jira", st.jira)
             a4 == animateValue(a3, "stat-blojs", st.blogs)
             f == renderFeed(container, d, <<>>)
         IN IF f.threw
            THEN [anim |-> a4, container |-> f.container, cs |-> cs, queried |-> TRUE,
                  threw |-> TRUE]
            ELSE [anim |-> a4, container |-> f.container,
                  cs |-> app_renderCharts(cs, dom, d), queried |-> TRUE, threw |-> FALSE]

ChartState == [live |-> liveCharts, slots |-> slots, next |-> nextChartId, last |-> lastCreated]

SetChartState(cs) ==
    /\ liveCharts' = cs.live
    /\ slots' = cs.slots
    /\ nextChartId' = cs.next
    /\ lastCreated' = cs.last

\* init up to the first await: updateUptime, setInterval, fetch sent
Boot ==
    /\ pc = "boot"
    /\ \E now \in Nows : uptime' = Some(updateUptime(now))
    /\ pc' = "fetching"
    /\ UNCHANGED <<data, statAnim, logFeed, navActive, dashDisplay, extraViews, canvases,
                   lastQuery, lastTab, uncaught, lastCall>>
    /\ UNCHANGED chartVars
    /\ UNCHANGED animVars

\* the timer of setInterval(() => this.updateUptime(), 1000)
Tick ==
    /\ pc # "boot"
    /\ \E now \in Nows : uptime' = Some(updateUptime(now))
    /\ UNCHANGED <<pc, data, statAnim, logFeed, navActive, dashDisplay, extraViews,
                   canvases, lastQuery, lastTab, uncaught, lastCall>>
    /\ UNCHANGED chartVars
    /\ UNCHANGED animVars

\* init from the response on: the fetch delivered the document doc; render
\* runs inside the try block, and the listeners are registered after it
FetchResolve(doc) ==
    /\ pc = "fetching"
    /\ LET out == render(Some(doc), statAnim, logFeed, ChartState, canvases)
       IN /\ data' = Some(doc)
          /\ statAnim' = out.anim
          /\ animState' = requestFirstFrames(animState, out.anim)
          /\ logFeed' = IF out.threw THEN <<ErrorBox>> ELSE out.container
          /\ lastQuery' = IF out.queried THEN Some(<<>>) ELSE lastQuery
          /\ SetChartState(out.cs)
    /\ pc' = "ready"
    /\ UNCHANGED <<uptime, navActive, dashDisplay, extraViews, canvases, lastTab,
                   uncaught, lastCall, statText, frameTs, animHist>>

\* init when the request rejects, the response is not OK or its body is not
\* JSON: the catch block, and the listeners are registered after it
FetchFail ==
    /\ pc = "fetching"
    /\ logFeed' = <<ErrorBox>>
    /\ pc' = "ready"
    /\ UNCHANGED <<data, uptime, statAnim, navActive, dashDisplay, extraViews, canvases,
                   lastQuery, lastTab, uncaught, lastCall>>
    /\ UNCHANGED chartVars
    /\ UNCHANGED animVars

\* the input listener that also stores the filtered items as the feed
FilterInput_StoresFiltered(q) ==
    /\ pc = "ready"
    /\ LET out == renderFeed(logFeed, data, q)
       IN /\ logFeed' = out.container
          /\ uncaught' = (uncaught \/ out.threw)
          /\ data' = IF out.threw THEN data
                     ELSE LET lq == toLowerCase(q)
                              Keep(item) == \/ includes(toLowerCase(item.title), lq)
                                            \/ includes(toLowerCase(item.subtitle), lq)
                                            \/ includes(toLowerCase(item.source), lq)
                          IN Some([Val(data) EXCEPT
                                      !.feed = Some(SelectSeq(Val(Val(data).feed), Keep))])
    /\ lastQuery' = Some(q)
    /\ UNCHANGED <<pc, uptime, statAnim, navActive, dashDisplay, extraViews, canvases,
                   lastTab, lastCall>>
    /\ UNCHANGED chartVars
    /\ UNCHANGED animVars

\* the 'input' listener of #log-filter: renderFeed(e.target.value)
FilterInput(q) ==
    /\ pc = "ready"
    /\ LET out == renderFeed(logFeed, data, q)
       IN /\ logFeed' = out.container
          /\ uncaught' = (uncaught \/ out.threw)
    /\ lastQuery' = Some(q)
    /\ UNCHANGED <<pc, data, uptime, statAnim, navActive, dashDisplay, extraViews,
                   canvases, lastTab, lastCall>>
    /\ UNCHANGED chartVars
    /\ UNCHANGED animVars

\* the nav items of the page, each named by its data-tab
NavItems == {"dashboard", "projects", "about", "settings"}

\* the 'click' listener of a nav item: the class 'active' moves to el, then
\* handleNav(el.dataset.tab)
NavClick(el) ==
    /\ pc = "ready"
    /\ navActive' = (navActive \ NavItems) \cup {el}
    /\ LET out == handleNav(el, data, extraViews)
       IN /\ extraViews' = out.views
          /\ dashDisplay' = out.display
          /\ uncaught' = (uncaught \/ out.threw)
    /\ lastTab' = Some(el)
    /\ UNCHANGED <<pc, data, uptime, statAnim, logFeed, canvases, lastQuery, lastCall>>
    /\ UNCHANGED chartVars
    /\ UNCHANGED animVars

\* the canvases a call constructed a chart on
createdBy(before, after) == {c \in AllCanvases : after.last[c] # before.last[c]}

\* a call of window.initCharts(analytics)
InitChartsCall(analytics) ==
    /\ nextChartId <= MaxCharts
    /\ LET out == initCharts(ChartState, canvases, analytics)
       IN /\ SetChartState(out.cs)
          /\ lastCall' = Some([fn |-> "initCharts", analytics |-> analytics,
                               created |-> createdBy(ChartState, out.cs),
                               caught |-> out.caught])
    /\ UNCHANGED appVars
    /\ UNCHANGED canvases
    /\ UNCHANGED animVars

\* a call of the standalone renderCharts(analytics)
RenderChartsCall(analytics) ==
    /\ nextChartId <= MaxCharts
    /\ LET out == renderCharts(ChartState, canvases, analytics)
       IN /\ SetChartState(out.cs)
          /\ lastCall' = Some([fn |-> "renderCharts", analytics |-> analytics,
                               created |-> createdBy(ChartState, out.cs),
                               caught |-> out.caught])
    /\ UNCHANGED appVars
    /\ UNCHANGED canvases
    /\ UNCHANGED animVars

\* timestamps of animation frames, in ms since the time origin of the page
FrameTimes == {k * TimeStep : k \in 0..MaxTicks}

\* an animation frame: the browser runs every requested step callback with
\* the timestamp of the frame, which is never below that of the frame before
Frame(timestamp) ==
    /\ pc = "ready"
    /\ \E id \in StatIds : animState[id].requested
    /\ IF frameTs = None THEN TRUE ELSE Val(frameTs) <= timestamp
    /\ frameTs' = Some(timestamp)
    /\ animState' = [id \in StatIds |->
                       IF animState[id].requested
                       THEN step(animState[id], timestamp, Val(statAnim[id]))
                       ELSE animState[id]]
    /\ statText' = [id \in StatIds |->
                      IF animState[id].requested
                      THEN Some(stepValue(animState[id].startTimestamp, timestamp,
                                          Val(statAnim[id])))
                      ELSE statText[id]]
    /\ animHist' = [id \in StatIds |->
                      IF animState[id].requested
                      THEN [first |-> IF animHist[id].first = None THEN Some(timestamp)
                                      ELSE animHist[id].first,
                            prev |-> statText[id]]
                      ELSE animHist[id]]
    /\ UNCHANGED <<pc, data, uptime, statAnim, logFeed, navActive, dashDisplay,
                   extraViews, canvases, lastQuery, lastTab, uncaught, lastCall>>
    /\ UNCHANGED chartVars

(***************************************************************************)
(* Specifications.                                                         *)
(***************************************************************************)
InitOn(pages) ==
    /\ pc = "boot"
    /\ data = None
    /\ uptime = None
    /\ statAnim = [id \in StatIds |-> None]
    /\ logFeed = <<>>
    /\ navActive = {"dashboard"}
    /\ dashDisplay = "flex"
    /\ extraViews = <<>>
    /\ canvases \in pages
    /\ liveCharts = {}
    /\ slots = [s \in ChartSlots |-> None]
    /\ nextChartId = 1
    /\ lastCreated = [c \in AllCanvases |-> None]
    /\ lastQuery = None
    /\ lastTab = None
    /\ uncaught = FALSE
    /\ lastCall = None
    /\ animState = [id \in StatIds |-> [startTimestamp |-> None, requested |-> FALSE]]
    /\ statText = [id \in StatIds |-> None]
    /\ frameTs = None
    /\ animHist = [id \in StatIds |-> [first |-> None, prev |-> None]]

\* the dashboard page: the script part_001 with its page
Init == InitOn({AllCanvases})

Next ==
    \/ Boot
    \/ Tick
    \/ \E doc \in Documents : FetchResolve(doc)
    \/ FetchFail
    \/ \E q \in Queries : FilterInput(q)
    \/ \E el \in NavItems : NavClick(el)

Spec == Init /\ [][Next]_vars

\* the chart-rendering calls of one page: app.init with its renderCharts, and
\* any calls of initCharts and of the standalone renderCharts; the page has
\* every canvas, lacks the repos canvas, or has the three chart canvases only
PageCanvasSets == {AllCanvases, AllCanvases \ {"reposChart"}, ChartSlots}

ChartsInit == InitOn(PageCanvasSets)

ChartsNext ==
    \/ Boot
    \/ \E doc \in SmallDocuments : FetchResolve(doc)
    \/ FetchFail
    \/ \E analytics \in Analytics : InitChartsCall(analytics)
    \/ \E analytics \in Analytics : RenderChartsCall(analytics)

ChartsSpec == ChartsInit /\ [][ChartsNext]_vars

\* the stat counters of the dashboard page: app.init with its render, and the
\* animation frames of the browser
AnimNext ==
    \/ Boot
    \/ \E doc \in AnimDocuments : FetchResolve(doc)
    \/ FetchFail
    \/ \E timestamp \in FrameTimes : Frame(timestamp)

AnimSpec == Init /\ [][AnimNext]_vars

(***************************************************************************)
(* Properties.                                                             *)
(***************************************************************************)
Loaded == data # None /\ Val(data).feed # None
Feed == Val(Val(data).feed)
FetchFailed == pc = "ready" /\ data = None

\* two characters that are equal or the two cases of one letter
SameLetter(a, b) ==
    \/ a = b
    \/ /\ Code(a) \in (65..90) \cup (97..122)
       /\ Code(b) \in (65..90) \cup (97..122)
       /\ (Code(a) - Code(b) = 32 \/ Code(b) - Code(a) = 32)

\* s contains q case-insensitively
ContainsCI(s, q) ==
    \E i \in 0..(Len(s) - Len(q)) : \A j \in 1..Len(q) : SameLetter(s[i + j], q[j])

\* the positions of the feed items that match the query q
Matching(feed, q) ==
    {i \in 1..Len(feed) : \/ ContainsCI(feed[i].title, q)
                          \/ ContainsCI(feed[i].subtitle, q)
                          \/ ContainsCI(feed[i].source, q)}

\* C1: after a failed fetch the log feed is never empty and no handler has
\* thrown, whatever filter inputs and nav clicks followed.
C1_UnavailableStateStays ==
    FetchFailed => (logFeed # <<>> /\ ~uncaught)

\* C2: a call of initCharts / renderCharts with a summary document, on a page
\* that has the three canvases, creates all three charts, whichever of
\* timeline, subsystems and repos the document lacks.
C2_AllThreeChartsDrawn ==
    (lastCall # None /\ Val(lastCall).analytics # None /\ ChartSlots \subseteq canvases)
        => Val(lastCall).created = ChartSlots

\* C3: once a document with a feed is loaded, render has run renderFeed and the
\* log feed never shows the 'Failed to mount' error, whichever of stats, chart
\* and languages the document lacks.
C3_PartialDocumentRenders ==
    (pc = "ready" /\ Loaded)
        => (lastQuery # None /\ \A i \in 1..Len(logFeed) : logFeed[i] # ErrorBox)

\* C4: after renderFeed(q) on a loaded feed, the log feed holds the placeholder
\* if and only if no item contains q case-insensitively in its title, subtitle
\* or source, and otherwise holds one row per matching item and no other row.
C4_FeedIsSearchable ==
    (Loaded /\ lastQuery # None) =>
        LET m == Matching(Feed, Val(lastQuery))
            shown(r) == Cardinality({i \in 1..Len(logFeed) : logFeed[i] = r})
            wanted(r) == Cardinality({i \in m : Row(Feed[i]) = r})
        IN /\ (logFeed = <<Placeholder>>) <=> (m = {})
           /\ m # {} => /\ \A i \in 1..Len(logFeed) : logFeed[i].kind = "row"
                        /\ \A i \in 1..Len(logFeed) : shown(logFeed[i]) = wanted(logFeed[i])
                        /\ \A i \in m : shown(Row(Feed[i])) = wanted(Row(Feed[i]))

\* C4 witness: an upper-case query has selected some items of the feed and not all.
C4_Witness ==
    /\ Loaded
    /\ lastQuery = Some(<<"F", "I", "X">>)
    /\ Len(logFeed) = 1
    /\ logFeed[1].kind = "row"
    /\ Len(Feed) = 2

\* C5: once app.data holds the document, no step changes it.
C5_DataReadOnly ==
    [][data # None => data' = data]_vars

\* C5 witness: the document is loaded and the feed was filtered and a tab was
\* opened after it.
C5_Witness ==
    /\ Loaded
    /\ Len(Feed) = 2
    /\ lastQuery = Some(S_kernel)
    /\ lastTab = Some("projects")
    /\ Len(logFeed) = 1

RepoNames(d) == {getUniqueRepos(d).repos[i].name : i \in 1..Len(getUniqueRepos(d).repos)}
GithubSubtitles(feed) == {feed[i].subtitle : i \in {j \in 1..Len(feed) : feed[j].source = S_github}}
HasSource(feed, src) == \E i \in 1..Len(feed) : feed[i].source = src

\* the cards of a projects panel, as <<section, position>>
CardPlaces(view) ==
    UNION {{<<i, j>> : j \in 1..Len(view.sections[i].cards)} : i \in 1..Len(view.sections)}

OwnOrg(r) == r.org
OrgOrOther(r) == IF r.org = <<>> THEN S_Other ELSE r.org

\* the panel lists every entry of repos exactly once, under the heading of its
\* org (when a blank org is to be headed 'Other': under that), and its
\* headings ascend
ListsEachOnce(view, repos, blankIsOther) ==
    /\ view.kind = "projects"
    /\ Cardinality(CardPlaces(view)) = Len(repos)
    /\ \A k \in 1..Len(repos) :
          /\ Cardinality({p \in CardPlaces(view) :
                             view.sections[p[1]].cards[p[2]].name = repos[k].name}) = 1
          /\ \A p \in CardPlaces(view) :
                view.sections[p[1]].cards[p[2]].name = repos[k].name
                    => view.sections[p[1]].heading =
                          IF blankIsOther THEN OrgOrOther(repos[k]) ELSE OwnOrg(repos[k])
    /\ \A i, j \in 1..Len(view.sections) :
          i < j => StrLess(view.sections[i].heading, view.sections[j].heading)

C7_ChartSingletons ==
    /\ \A canvas \in AllCanvases :
          Cardinality({c \in liveCharts : c.canvas = canvas}) <= 1
    /\ \A s \in ChartSlots :
          slots[s] # None =>
              /\ \E c \in liveCharts : c.id = Val(slots[s]) /\ c.canvas = s
              /\ slots[s] = lastCreated[s]

\* C7 witness: a slot's chart was replaced, and the charts of app.renderCharts
\* are on the page.
C7_Witness ==
    /\ \E s \in ChartSlots : slots[s] # None
    /\ nextChartId - 1 > Cardinality(liveCharts)
    /\ \E c \in liveCharts : c.canvas = "throughputChart"
    /\ lastCall # None

\* the k-th smallest element of a set of positions
NthOf(m, k) == CHOOSE i \in m : Cardinality({j \in m : j < i}) = k - 1

\* C8: on a loaded document the log feed is exactly the rows of the items
\* matching the last query, in the order of data.feed (the placeholder when
\* none matches), whatever was displayed before.
C8_LastQueryInFeedOrder ==
    (Loaded /\ lastQuery # None) =>
        LET m == Matching(Feed, Val(lastQuery))
        IN logFeed = IF m = {} THEN <<Placeholder>>
                     ELSE [k \in 1..Cardinality(m) |-> Row(Feed[NthOf(m, k)])]

\* C8 witness: a query after the first one shows two different rows.
C8_Witness ==
    /\ Loaded
    /\ lastQuery = Some(<<"F", "I", "X">>)
    /\ Len(logFeed) = 2
    /\ logFeed[1] # logFeed[2]
    /\ logFeed[1].kind = "row"

\* C9: after a nav click there is at most one #extra-view, it exists exactly
\* when the last tab is projects or about, the dashboard view is displayed
\* exactly when the last tab is dashboard, and the clicked item alone is active.
C9_ViewSwitching ==
    lastTab # None =>
        /\ Len(extraViews) <= 1
        /\ (extraViews # <<>>) <=> (Val(lastTab) \in {"projects", "about"})
        /\ (dashDisplay = "flex") <=> (Val(lastTab) = "dashboard")
        /\ navActive = {Val(lastTab)}

\* C10: over the source values of the data model, renderFeed labels some item
\* LINUX exactly when getUniqueRepos includes 'linux.git', and some item KAFKA
\* exactly when it includes 'Apache Kafka'.
C10_ConsistentClassification ==
    (Loaded /\ \A i \in 1..Len(Feed) : Feed[i].source \in DataModelSources) =>
        /\ (\E i \in 1..Len(Feed) : Row(Feed[i]).sourceLabel = S_LINUX
                                    /\ Row(Feed[i]).tagClass = "tag-kernel")
              <=> (S_linux_git \in RepoNames(data))
        /\ (\E i \in 1..Len(Feed) : Row(Feed[i]).sourceLabel = S_KAFKA
                                    /\ Row(Feed[i]).tagClass = "tag-jira")
              <=> (S_Apache_Kafka \in RepoNames(data))

\* C11: the stat counter animation terminates. Once a frame has been delivered
\* whose timestamp is duration (1000 ms) or more past the first frame of an
\* animation, that animation requests no frame any more and displays end;
\* every displayed value lies between 0 and end; displayed values never
\* decrease; and with end undefined no frame is requested and nothing is
\* written.
C11_AnimationTerminates ==
    \A id \in StatIds :
        IF statAnim[id] = None
        THEN ~animState[id].requested /\ statText[id] = None
        ELSE /\ (/\ animHist[id].first # None
                 /\ Val(frameTs) - Val(animHist[id].first) >= duration)
                    => (~animState[id].requested /\ statText[id] = statAnim[id])
             /\ statText[id] # None
                    => (Val(statText[id]) >= 0 /\ Val(statText[id]) <= Val(statAnim[id]))
             /\ (statText[id] # None /\ animHist[id].prev # None)
                    => Val(animHist[id].prev) <= Val(statText[id])

====
